---- MODULE Spec2Model ----
(***************************************************************************)
(* A model of the FTX gateway of vnpy_ftx (src/vnpy_ftx/ftx_gateway.py):   *)
(* the REST connector's client order ids, order cache and request          *)
(* callbacks, the WebSocket connector's subscription registry and frame    *)
(* handlers, and the order status reconciliation both connectors apply.    *)
(***************************************************************************)
EXTENDS Integers, Sequences, FiniteSets, TLC

(***************************************************************************)
(* Bounds of the model.                                                    *)
(***************************************************************************)
\* values the wall clock stamp "%y%m%d%H%M%S" takes: 1..MaxClock
MaxClock == 2
\* calls of FtxRestApi.connect, where client order ids are studied
MaxConnects == 2
\* calls of send_order, where client order ids are studied
MaxOrders == 3
\* calls of FtxRestApi.connect, where the life of an order is studied
MaxSessions == 1
\* calls of send_order, where the life of an order is studied
MaxTracked == 1
\* calls of cancel_order
MaxCancels == 1
\* frames of the channel "orders" the exchange pushes
MaxPushes == 1
\* calls of FtxGateway.connect, where the WebSocket session is studied
MaxStarts == 1
\* transport connects of the WebSocket session
MaxWsConnects == 2
\* calls of subscribe
MaxSubscribes == 3
\* calls of unsubscribe
MaxUnsubscribes == 1
\* raw sizes of an exchange order record: 0..MaxSize
MaxSize == 2
\* records in one open-order query response
MaxBatch == 1
\* the exchange's order ids the pushed frames carry: 1..MaxExchangeIds
MaxExchangeIds == 2
\* client order ids the pushed frames carry: 1..MaxClients
MaxClients == 2
\* frames of the channel "orders", where fills are studied
MaxFillPushes == 2
\* frames of the channel "fills"
MaxFills == 2
\* calls of FtxGateway.connect, where the heartbeat is studied
MaxInits == 2
\* timer ticks
MaxTicks == 31
\* readings of the millisecond clock in sign: 1..MaxTimestamp
MaxTimestamp == 2
\* candles in one response
MaxCandles == 3

(***************************************************************************)
(* Program constants.                                                      *)
(***************************************************************************)
\* FtxRestApi.__init__: self.order_count = 1_000_000
ORDER_COUNT_INIT == 1000000

\* caller threads of send_order
Threads == {"t1", "t2"}

\* gateway_name, the default of FtxGateway.__init__
GatewayName == "FTX"

\* an order id that this process never generated
ExternalId == 0

\* Python's None, for a value that is an order id, and for an OrderData
NoId == -1
NoOrder == [orderid |-> NoId, status |-> "None"]

\* the value a host call has before it returns
NotReturned == <<"pending">>
\* Python's None as the value a call returns
None == <<"None">>

VARIABLES
    now,            \* the last wall clock stamp int(strftime("%y%m%d%H%M%S")) read
    connect_time,   \* FtxRestApi.connect_time
    order_count,    \* FtxRestApi.order_count
    lifetime,       \* number of FtxRestApi.connect calls so far
    pc,             \* position of each caller thread inside send_order
    t_ct,           \* the connect_time a thread has read
    t_life,         \* the lifetime a thread's send_order began in
    t_id,           \* the orderid a thread has computed
    handle,         \* what FtxGateway.send_order returned to each thread
    allocs,         \* the ids generated, in the order of the locked increments
    orders,         \* FtxGateway.orders: orderid -> cached OrderData (its status)
    order_id,       \* FtxGateway.order_id: exchange id -> client id
    events,         \* the Order events published to the host, in order
    reqs,           \* the requests handed to RestClient.add_request, in order
    left,           \* the calls and frames still to come, by kind
    symbol_contract_map,  \* the symbols of the module's symbol_contract_map
    subscribed,     \* FtxWebsocketApi.subscribed: its requests, in insertion order
    ws_state,       \* the WebSocket transport: "stopped", "connecting", "connected"
    conn,           \* number of transport connects so far
    sent,           \* the frames handed to send_packet, in order
    last,           \* the last subscribe or unsubscribe call, and what it met
    count,          \* FtxGateway.count, the ticks since the last heartbeat
    registered,     \* process_timer_event is registered for EVENT_TIMER
    ticks,          \* the timer ticks handled since init_ping
    beats,          \* the ticks, counted since init_ping, that sent a ping
    key,            \* FtxRestApi.key
    secret,         \* FtxRestApi.secret
    trades,         \* the Trade events published to the host, in order
    inbound,        \* the orders and fills frames on_packet was given, in order
    rec,            \* a raw order record, and the status each reconciler gave it
    publishing,     \* by dispatch thread, the order it has cached and not yet published
    signed,         \* two requests, and what sign made of each
    history         \* a candles response, and what query_history returned for it

orderVars == <<now, connect_time, order_count, lifetime, pc, t_ct, t_life, t_id,
               handle, allocs, orders, order_id, events, reqs>>

streamVars == <<symbol_contract_map, subscribed, ws_state, conn, sent, last>>

timerVars == <<count, registered, ticks, beats>>

credVars == <<key, secret>>

inboundVars == <<trades, inbound>>

callVars == <<rec, signed, history>>

vars == <<orderVars, credVars, inboundVars, publishing, left, streamVars, timerVars,
          callVars>>

(***************************************************************************)
(* Status values (vnpy.trader.constant.Status, and the fallback string).   *)
(***************************************************************************)
SUBMITTING == "SUBMITTING"
NOTTRADED == "NOTTRADED"
PARTTRADED == "PARTTRADED"
ALLTRADED == "ALLTRADED"
CANCELLED == "CANCELLED"
REJECTED == "REJECTED"
\* the else branch of both reconcilers: status = "other status"
OTHER_STATUS == "other status"

(***************************************************************************)
(* FtxRestApi.on_query_order, lines 435-450: the status of one record of   *)
(* an open-order query response.                                           *)
(***************************************************************************)
QueryOrderStatus(current_status, size, filled_size, remaining_size) ==
    IF current_status = "new" THEN NOTTRADED
    ELSE IF (current_status = "open") /\ (filled_size = 0) THEN NOTTRADED
    ELSE IF (current_status = "open") /\ (size # filled_size) THEN PARTTRADED
    ELSE IF (current_status = "closed") /\ (size # filled_size) THEN CANCELLED
    ELSE IF (remaining_size = 0) /\ (size = filled_size) THEN ALLTRADED
    ELSE OTHER_STATUS

(***************************************************************************)
(* FtxWebsocketApi.on_packet, channel "orders", lines 710-725: the status  *)
(* of one pushed order record.                                             *)
(***************************************************************************)
\* a reconciler that takes every order that is not closed for an open one
PacketOrderStatusOpen(current_status, size, filled_size, remaining_size) ==
    IF (current_status # "closed") /\ (filled_size = 0) THEN NOTTRADED
    ELSE IF (current_status # "closed") /\ (size # filled_size) THEN PARTTRADED
    ELSE IF (current_status = "closed") /\ (size # filled_size) THEN CANCELLED
    ELSE IF (remaining_size = 0) /\ (size = filled_size) THEN ALLTRADED
    ELSE OTHER_STATUS

PacketOrderStatus(current_status, size, filled_size, remaining_size) ==
    IF current_status = "new" THEN NOTTRADED
    ELSE IF (current_status = "open") /\ (filled_size = 0) THEN NOTTRADED
    ELSE IF (current_status = "open") /\ (size # filled_size) THEN PARTTRADED
    ELSE IF (current_status = "closed") /\ (size # filled_size) THEN CANCELLED
    ELSE IF (remaining_size = 0) /\ (size = filled_size) THEN ALLTRADED
    ELSE OTHER_STATUS

(***************************************************************************)
(* FtxGateway.on_order: cache a copy under order.orderid, then publish.    *)
(***************************************************************************)
CachePut(cache, orderid, status) ==
    [i \in (DOMAIN cache) \cup {orderid} |->
        IF i = orderid THEN [orderid |-> orderid, status |-> status] ELSE cache[i]]

\* FtxGateway.get_order: self.orders.get(orderid, None)
get_order(orderid) ==
    IF orderid \in DOMAIN orders THEN orders[orderid] ELSE NoOrder

on_order(orderid, status, by) ==
    /\ orders' = CachePut(orders, orderid, status)
    /\ events' = Append(events, [orderid |-> orderid, status |-> status, by |-> by])

(***************************************************************************)
(* RestClient.add_request as the gateway uses it: the request is queued    *)
(* with its callbacks and its extra, and answered later.                   *)
(***************************************************************************)
Request(method, path, orderid, extra) ==
    [method |-> method, path |-> path, orderid |-> orderid, extra |-> extra,
     st |-> "pending"]

\* query_account, query_position, query_order, query_contract (lines 274-324)
QueryAccountRequest == Request("GET", "/api/wallet/balances", NoId, NoOrder)
QueryPositionRequest == Request("GET", "/api/positions", NoId, NoOrder)
QueryOrderRequest == Request("GET", "/api/orders", NoId, NoOrder)
QueryContractRequest == Request("GET", "/api/markets", NoId, NoOrder)

(***************************************************************************)
(* FtxRestApi.connect, lines 247-272.                                      *)
(***************************************************************************)
\* a connect that starts the sequence counter afresh
ConnectOrderCountReset(number) == ORDER_COUNT_INIT

\* connect leaves order_count as it is
ConnectOrderCount(number) == number

\* self.connect_time = int(datetime.now().strftime(...)) * self.order_count
ConnectTime(stamp, number) == stamp * number

\* secret.encode(): the bytes of the string
encode(string) == [bytes |-> string]

\* the credentials of a host that has them
ApiKey == "key"
ApiSecret == "secret"

\* datetime.now() read as a stamp: the wall clock has one stamp per second and
\* does not run backwards, so the stamp is the last one read or a later one
rest_connect(k, s, stamp) ==
    /\ left.connect > 0
    /\ left' = [left EXCEPT !.connect = @ - 1]
    /\ key' = k
    /\ secret' = encode(s)
    /\ now' = stamp
    /\ lifetime' = lifetime + 1
    /\ connect_time' = ConnectTime(stamp, order_count)
    /\ order_count' = ConnectOrderCount(order_count)
    /\ reqs' = reqs \o <<QueryAccountRequest, QueryPositionRequest,
                         QueryOrderRequest, QueryContractRequest>>
    /\ UNCHANGED <<pc, t_ct, t_life, t_id, handle, allocs, orders, order_id,
                   events>>

RestConnect == \E stamp \in now..MaxClock : rest_connect(ApiKey, ApiSecret, stamp)

(***************************************************************************)
(* FtxRestApi.send_order, lines 332-368, called through                    *)
(* FtxGateway.send_order, lines 145-147, by any caller thread.  Its steps: *)
(* read connect_time; _new_order_id under order_count_lock; create the     *)
(* order and gateway.on_order; add_request and return.                     *)
(***************************************************************************)
\* the left operand of self.connect_time + self._new_order_id()
SendOrderRead(t) ==
    /\ pc[t] = "idle"
    /\ left.send > 0
    /\ left' = [left EXCEPT !.send = @ - 1]
    /\ pc' = [pc EXCEPT ![t] = "read"]
    /\ t_ct' = [t_ct EXCEPT ![t] = connect_time]
    /\ t_life' = [t_life EXCEPT ![t] = lifetime]
    /\ t_id' = [t_id EXCEPT ![t] = NoId]
    /\ handle' = [handle EXCEPT ![t] = NotReturned]
    /\ UNCHANGED <<now, connect_time, order_count, lifetime, allocs, orders,
                   order_id, events, reqs>>

\* an increment that is lost
NewOrderCountStale(number) == number

\* _new_order_id, lines 326-330: with the lock held, order_count += 1
NewOrderCount(number) == number + 1

SendOrderNewId(t) ==
    /\ pc[t] = "read"
    /\ order_count' = NewOrderCount(order_count)
    /\ t_id' = [t_id EXCEPT ![t] = t_ct[t] + order_count']
    /\ allocs' = Append(allocs, [id |-> t_id'[t], number |-> order_count',
                                 began |-> t_life[t], life |-> lifetime])
    /\ pc' = [pc EXCEPT ![t] = "alloc"]
    /\ UNCHANGED <<now, connect_time, lifetime, t_ct, t_life, handle, orders,
                   order_id, events, reqs, left>>

\* req.create_order_data(orderid, gateway_name): a new OrderData, whose status
\* is the default of vnpy's OrderData, Status.SUBMITTING
create_order_data(orderid) == [orderid |-> orderid, status |-> SUBMITTING]

\* a send_order that goes on to add_request without gateway.on_order
SendOrderSkipOnOrder(t) ==
    /\ pc[t] = "alloc"
    /\ pc' = [pc EXCEPT ![t] = "pub"]
    /\ UNCHANGED <<now, connect_time, order_count, lifetime, t_ct, t_life, t_id,
                   handle, allocs, orders, order_id, events, reqs, left>>

SendOrderOnOrder(t) ==
    /\ pc[t] = "alloc"
    /\ on_order(t_id[t], create_order_data(t_id[t]).status, "send_order")
    /\ pc' = [pc EXCEPT ![t] = "pub"]
    /\ UNCHANGED <<now, connect_time, order_count, lifetime, t_ct, t_life, t_id,
                   handle, allocs, order_id, reqs, left>>

\* order.vt_orderid: f"{gateway_name}.{orderid}"
vt_orderid(orderid) == <<GatewayName, orderid>>

\* FtxRestApi.send_order: return order.vt_orderid
RestSendOrderReturn(orderid) == vt_orderid(orderid)

\* FtxGateway.send_order: self.rest_api.send_order(req), and no return statement
GatewaySendOrderReturn(fromRest) == None

SendOrderAddRequest(t) ==
    /\ pc[t] = "pub"
    /\ reqs' = Append(reqs, Request("POST", "/api/orders", t_id[t],
                                    create_order_data(t_id[t])))
    /\ handle' = [handle EXCEPT
                    ![t] = GatewaySendOrderReturn(RestSendOrderReturn(t_id[t]))]
    /\ pc' = [pc EXCEPT ![t] = "idle"]
    /\ t_ct' = [t_ct EXCEPT ![t] = 0]
    /\ t_life' = [t_life EXCEPT ![t] = 0]
    /\ UNCHANGED <<now, connect_time, order_count, lifetime, t_id,
                   allocs, orders, order_id, events, left>>

(***************************************************************************)
(* FtxRestApi.cancel_order, lines 370-385, for any order id the host may   *)
(* name: one this process generated, or one it never did.                  *)
(***************************************************************************)
GeneratedIds == {allocs[i].id : i \in DOMAIN allocs}

cancel_order(orderid) ==
    /\ left.cancel > 0
    /\ left' = [left EXCEPT !.cancel = @ - 1]
    /\ reqs' = Append(reqs, Request("DELETE", "/api/orders/by_client_id/",
                                    orderid, get_order(orderid)))
    /\ UNCHANGED <<now, connect_time, order_count, lifetime, pc, t_ct, t_life,
                   t_id, handle, allocs, orders, order_id, events>>

CancelOrder == \E orderid \in GeneratedIds \cup {ExternalId} : cancel_order(orderid)

(***************************************************************************)
(* The answers of the REST transport.  Each queued request is answered at  *)
(* most once: its callback on a 2xx response, on_failed on another status  *)
(* code, on_error on an exception.                                         *)
(***************************************************************************)
Pending(i) == i \in DOMAIN reqs /\ reqs[i].st = "pending"

IsSendOrder(r) == r.method = "POST" /\ r.path = "/api/orders"
IsCancel(r) == r.method = "DELETE"
IsQueryOrder(r) == r.method = "GET" /\ r.path = "/api/orders"
IsQueryContract(r) == r.method = "GET" /\ r.path = "/api/markets"

Answered(i, st) == [reqs EXCEPT ![i].st = st]

\* order.status = Status.REJECTED, on the OrderData that is the request's extra
Rejected(i, st) == [reqs EXCEPT ![i].st = st, ![i].extra.status = REJECTED]

\* on_send_order, lines 493-495: pass
OnSendOrder(i) ==
    /\ Pending(i) /\ IsSendOrder(reqs[i])
    /\ reqs' = Answered(i, "success")
    /\ UNCHANGED <<now, connect_time, order_count, lifetime, pc, t_ct, t_life,
                   t_id, handle, allocs, orders, order_id, events, left>>

\* a failure callback that only logs
SendOrderRejectSilent(i, st, by) ==
    /\ reqs' = Answered(i, st)
    /\ UNCHANGED <<orders, events>>

\* the body shared by on_send_order_error and on_send_order_failed:
\* order = request.extra; order.status = REJECTED; self.gateway.on_order(order)
SendOrderReject(i, st, by) ==
    /\ reqs' = Rejected(i, st)
    /\ on_order(reqs[i].extra.orderid, REJECTED, by)

\* on_send_order_error, lines 497-507
OnSendOrderError(i) ==
    /\ Pending(i) /\ IsSendOrder(reqs[i])
    /\ SendOrderReject(i, "error", "on_send_order_error")
    /\ UNCHANGED <<now, connect_time, order_count, lifetime, pc, t_ct, t_life,
                   t_id, handle, allocs, order_id, left>>

\* on_send_order_failed, lines 509-517
OnSendOrderFailed(i) ==
    /\ Pending(i) /\ IsSendOrder(reqs[i])
    /\ SendOrderReject(i, "failed", "on_send_order_failed")
    /\ UNCHANGED <<now, connect_time, order_count, lifetime, pc, t_ct, t_life,
                   t_id, handle, allocs, order_id, left>>

\* on_cancel_order, lines 519-521: pass
OnCancelOrder(i) ==
    /\ Pending(i) /\ IsCancel(reqs[i])
    /\ reqs' = Answered(i, "success")
    /\ UNCHANGED <<now, connect_time, order_count, lifetime, pc, t_ct, t_life,
                   t_id, handle, allocs, orders, order_id, events, left>>

\* on_cancel_failed, lines 523-531: if request.extra: reject it and publish
OnCancelFailed(i) ==
    /\ Pending(i) /\ IsCancel(reqs[i])
    /\ IF reqs[i].extra # NoOrder
         THEN /\ reqs' = Rejected(i, "failed")
              /\ on_order(reqs[i].extra.orderid, REJECTED, "on_cancel_failed")
         ELSE /\ reqs' = Answered(i, "failed")
              /\ UNCHANGED <<orders, events>>
    /\ UNCHANGED <<now, connect_time, order_count, lifetime, pc, t_ct, t_life,
                   t_id, handle, allocs, order_id, left>>

\* cancel_order passes no on_error: RestClient.on_error reports the exception
OnCancelError(i) ==
    /\ Pending(i) /\ IsCancel(reqs[i])
    /\ reqs' = Answered(i, "error")
    /\ UNCHANGED <<now, connect_time, order_count, lifetime, pc, t_ct, t_life,
                   t_id, handle, allocs, orders, order_id, events, left>>

(***************************************************************************)
(* What the exchange reports about orders: records for the client ids it   *)
(* was sent.                                                               *)
(***************************************************************************)
SentIds == {reqs[i].orderid : i \in {j \in DOMAIN reqs : IsSendOrder(reqs[j])}}

ReportedIds == SentIds

\* raw records <<status, size, filledSize, remainingSize>>, one for every
\* status the reconciliation can give
RawSamples ==
    { <<"new", 2, 0, 2>>, <<"open", 2, 1, 1>>, <<"closed", 2, 1, 1>>,
      <<"closed", 2, 2, 0>>, <<"gibberish", 2, 1, 1>> }

\* the exchange's own id of an order, here the one of the order a client id names
ExchangeId(number) == <<"id", number>>

OrderRecords ==
    {[id |-> ExchangeId(c), clientId |-> c, raw |-> r] : c \in ReportedIds, r \in RawSamples}

RECURSIVE QueryOrderCache(_, _)
QueryOrderCache(cache, data) ==
    IF data = <<>> THEN cache
    ELSE QueryOrderCache(
            CachePut(cache, Head(data).clientId,
                     QueryOrderStatus(Head(data).raw[1], Head(data).raw[2],
                                      Head(data).raw[3], Head(data).raw[4])),
            Tail(data))

QueryOrderEvents(data) ==
    [k \in DOMAIN data |->
        [orderid |-> data[k].clientId,
         status |-> QueryOrderStatus(data[k].raw[1], data[k].raw[2],
                                     data[k].raw[3], data[k].raw[4]),
         by |-> "on_query_order"]]

\* on_query_order, lines 429-468: for d in data["result"]: reconcile, on_order
on_query_order(i, data) ==
    /\ orders' = QueryOrderCache(orders, data)
    /\ events' = events \o QueryOrderEvents(data)
    /\ reqs' = Answered(i, "success")
    /\ UNCHANGED <<now, connect_time, order_count, lifetime, pc, t_ct, t_life,
                   t_id, handle, allocs, order_id, left>>

OnQueryOrder ==
    \E i \in DOMAIN reqs : \E n \in 0..MaxBatch : \E data \in [1..n -> OrderRecords] :
        /\ Pending(i) /\ IsQueryOrder(reqs[i])
        /\ on_query_order(i, data)

(***************************************************************************)
(* FtxWebsocketApi.on_packet, type "update", channel "orders",             *)
(* lines 707-742.                                                          *)
(***************************************************************************)
MapPut(map, name, value) ==
    [k \in (DOMAIN map) \cup {name} |-> IF k = name THEN value ELSE map[k]]

\* a frame on_packet was given: its channel, the exchange's order id it
\* carries, whether order_id held that id, how the handler ended, and the
\* number of requests queued before it and after it
Handled(channel, id, clientId, outcome, queued) ==
    [channel |-> channel, id |-> id, clientId |-> clientId,
     known |-> id \in DOMAIN order_id, outcome |-> outcome,
     before |-> Len(reqs), after |-> queued]

on_packet_orders(d) ==
    /\ left.push > 0
    /\ left' = [left EXCEPT !.push = @ - 1]
    /\ order_id' = MapPut(order_id, d.id, d.clientId)
    /\ on_order(d.clientId,
                PacketOrderStatus(d.raw[1], d.raw[2], d.raw[3], d.raw[4]),
                "on_packet")
    /\ inbound' = Append(inbound,
                         Handled("orders", d.id, d.clientId, "returned", Len(reqs)))
    /\ UNCHANGED <<now, connect_time, order_count, lifetime, pc, t_ct, t_life,
                   t_id, handle, allocs, reqs, trades>>

OnPacketOrders == \E d \in OrderRecords : on_packet_orders(d)

\* orders frames for any order of the account: the exchange's order ids and
\* the client ids of orders sent in this run or before it
ExchangeIds == {ExchangeId(n) : n \in 1..MaxExchangeIds}

ClientIds == 1..MaxClients

PushRecords == [id : ExchangeIds, clientId : ClientIds, raw : RawSamples]

OnPacketOrdersPushed == \E d \in PushRecords : on_packet_orders(d)

(***************************************************************************)
(* FtxWebsocketApi.on_packet, type "update", channel "fills",              *)
(* lines 689-705.                                                          *)
(***************************************************************************)
\* a lookup of some other entry of the map
FillOrderIdOther(map, d) ==
    map[CHOOSE i \in DOMAIN map : i # d.orderId \/ DOMAIN map = {d.orderId}]

\* orderid=self.gateway.order_id[d["orderId"]]
FillOrderId(map, d) == map[d.orderId]

FillRecords == [orderId : ExchangeIds]

\* the subscript raises KeyError for an id the map does not hold: TradeData is
\* not built, and on_trade and query_position are not reached
on_packet_fills(d) ==
    /\ left.fill > 0
    /\ left' = [left EXCEPT !.fill = @ - 1]
    /\ IF d.orderId \in DOMAIN order_id
         THEN /\ trades' = Append(trades, [orderid |-> FillOrderId(order_id, d),
                                           frame |-> Len(inbound) + 1,
                                           queued |-> Len(reqs)])
              /\ reqs' = Append(reqs, QueryPositionRequest)
              /\ inbound' = Append(inbound,
                                   Handled("fills", d.orderId, NoId, "returned",
                                           Len(reqs) + 1))
         ELSE /\ inbound' = Append(inbound,
                                   Handled("fills", d.orderId, NoId, "KeyError",
                                           Len(reqs)))
              /\ UNCHANGED <<trades, reqs>>
    /\ UNCHANGED <<now, connect_time, order_count, lifetime, pc, t_ct, t_life,
                   t_id, handle, allocs, orders, order_id, events>>

OnPacketFills == \E d \in FillRecords : on_packet_fills(d)

(***************************************************************************)
(* The WebSocket connector.  A SubscribeRequest is its symbol and its      *)
(* exchange; its vt_symbol, f"{symbol}.{exchange.value}", is the key of    *)
(* the subscription registry.                                              *)
(***************************************************************************)
Symbols == {"BTC-PERP", "ETH-PERP"}

\* FtxGateway.exchanges, line 113
Exchanges == {"FTX"}

SubscribeRequests == [symbol : Symbols, exchange : Exchanges]

vt_symbol(req) == <<req.symbol, req.exchange>>

\* the keys of self.subscribed
Keys(registry) == {vt_symbol(registry[k]) : k \in DOMAIN registry}

\* a frame handed to send_packet while the c-th transport connect is the latest
Frame(op, channel, market, c) ==
    [op |-> op, channel |-> channel, market |-> market, conn |-> c]

\* a ping that sends nothing
ping_skipped(out, c) == out

\* ping, lines 663-664
ping(out, c) == Append(out, Frame("ping", "", "", c))

\* authenticate, lines 615-630: the login frame
authenticate(out, c) == Append(out, Frame("login", "", "", c))

\* subscribe_private_channels, lines 658-661
subscribe_private_channels(out, c) ==
    out \o <<Frame("subscribe", "fills", "", c), Frame("subscribe", "orders", "", c)>>

\* a subscribe that does not look the key up in self.subscribed
subscribe_again(st, req, c) ==
    IF req.symbol \notin symbol_contract_map THEN st
    ELSE [subscribed |->
              IF vt_symbol(req) \in Keys(st.subscribed) THEN st.subscribed
              ELSE Append(st.subscribed, req),
          sent |-> subscribe_private_channels(
                       Append(st.sent, Frame("subscribe", "ticker", req.symbol, c)), c)]

\* a subscribe that does not look the symbol up in symbol_contract_map
subscribe_unknown(st, req, c) ==
    IF vt_symbol(req) \in Keys(st.subscribed) THEN st
    ELSE [subscribed |-> Append(st.subscribed, req),
          sent |-> subscribe_private_channels(
                       Append(st.sent, Frame("subscribe", "ticker", req.symbol, c)), c)]

\* subscribe, lines 632-645, on st = [subscribed, sent]
subscribe(st, req, c) ==
    IF req.symbol \notin symbol_contract_map THEN st
    ELSE IF vt_symbol(req) \in Keys(st.subscribed) THEN st
    ELSE [subscribed |-> Append(st.subscribed, req),
          sent |-> subscribe_private_channels(
                       Append(st.sent, Frame("subscribe", "ticker", req.symbol, c)), c)]

IsNot(name, req) == vt_symbol(req) # name

\* an unsubscribe that sends its frame whether or not it held the key
unsubscribe_always(st, req, c) ==
    IF req.symbol \notin symbol_contract_map THEN st
    ELSE [subscribed |-> SelectSeq(st.subscribed, LAMBDA r : IsNot(vt_symbol(req), r)),
          sent |-> Append(st.sent, Frame("unsubscribe", "ticker", req.symbol, c))]

\* unsubscribe, lines 647-656, on st = [subscribed, sent]
unsubscribe(st, req, c) ==
    IF req.symbol \notin symbol_contract_map THEN st
    ELSE IF vt_symbol(req) \in Keys(st.subscribed)
    THEN [subscribed |-> SelectSeq(st.subscribed, LAMBDA r : IsNot(vt_symbol(req), r)),
          sent |-> Append(st.sent, Frame("unsubscribe", "ticker", req.symbol, c))]
    ELSE st

\* what a call of subscribe or unsubscribe met: the symbol known, the key
\* held, and the transport connects there had been
Met(op, req) ==
    [op |-> op, req |-> req,
     known |-> req.symbol \in symbol_contract_map,
     had |-> vt_symbol(req) \in Keys(subscribed),
     conn |-> conn]

\* FtxGateway.subscribe, lines 137-139
Subscribe(req) ==
    /\ left.subscribe > 0
    /\ left' = [left EXCEPT !.subscribe = @ - 1]
    /\ LET st == subscribe([subscribed |-> subscribed, sent |-> sent], req, conn)
       IN  /\ subscribed' = st.subscribed
           /\ sent' = st.sent
    /\ last' = Met("subscribe", req)
    /\ UNCHANGED <<symbol_contract_map, ws_state, conn>>

\* FtxGateway.unsubscribe, lines 141-143
Unsubscribe(req) ==
    /\ left.unsubscribe > 0
    /\ left' = [left EXCEPT !.unsubscribe = @ - 1]
    /\ LET st == unsubscribe([subscribed |-> subscribed, sent |-> sent], req, conn)
       IN  /\ subscribed' = st.subscribed
           /\ sent' = st.sent
    /\ last' = Met("unsubscribe", req)
    /\ UNCHANGED <<symbol_contract_map, ws_state, conn>>

\* FtxWebsocketApi.connect, lines 584-599: init and start the session
ws_connect ==
    /\ ws_state' = "connecting"
    /\ UNCHANGED <<symbol_contract_map, subscribed, conn, sent, last>>

\* for req in list(self.subscribed.values()): self.subscribe(req)
RECURSIVE Replay(_, _, _)
Replay(st, todo, c) ==
    IF todo = <<>> THEN st
    ELSE Replay(subscribe(st, Head(todo), c), Tail(todo), c)

\* on_connected, lines 601-609
OnConnected ==
    /\ ws_state = "connecting"
    /\ left.wsconn > 0
    /\ left' = [left EXCEPT !.wsconn = @ - 1]
    /\ ws_state' = "connected"
    /\ conn' = conn + 1
    /\ LET c == conn + 1
           st == Replay([subscribed |-> subscribed,
                         sent |-> authenticate(ping(sent, c), c)],
                        subscribed, c)
       IN  /\ subscribed' = st.subscribed
           /\ sent' = st.sent
    /\ UNCHANGED <<symbol_contract_map, last>>

\* on_disconnected, lines 611-613: a log line; the transport connects again
OnDisconnected ==
    /\ ws_state = "connected"
    /\ ws_state' = "connecting"
    /\ UNCHANGED <<symbol_contract_map, subscribed, conn, sent, last, left>>

\* on_query_contract, lines 470-491: every market of the answer is recorded
on_query_contract(i, names) ==
    /\ Pending(i) /\ IsQueryContract(reqs[i])
    /\ symbol_contract_map' = symbol_contract_map \cup names
    /\ reqs' = Answered(i, "success")
    /\ UNCHANGED <<now, connect_time, order_count, lifetime, pc, t_ct, t_life,
                   t_id, handle, allocs, orders, order_id, events, left>>
    /\ UNCHANGED <<subscribed, ws_state, conn, sent, last>>

OnQueryContract ==
    \E i \in DOMAIN reqs : \E names \in SUBSET Symbols : on_query_contract(i, names)

\* init_ping, lines 191-194
init_ping ==
    /\ count' = 0
    /\ registered' = TRUE
    /\ ticks' = 0
    /\ beats' = <<>>

\* the setting the host passes to connect: each credential filled in or empty
Settings == [key : {"", ApiKey}, secret : {"", ApiSecret}]

\* FtxGateway.connect, lines 125-135
GatewayConnect ==
    \E setting \in Settings : \E stamp \in now..MaxClock :
        /\ rest_connect(setting.key, setting.secret, stamp)
        /\ ws_connect
        /\ init_ping

(***************************************************************************)
(* FtxGateway.on_order step by step.  The callbacks of the REST client run *)
(* on its thread and on_packet runs on the thread of the WebSocket client; *)
(* on_order takes no lock, so between its two statements, the write of the *)
(* cache and the publication, the other thread may run.  Each connector    *)
(* handles one callback or frame at a time.                                *)
(***************************************************************************)
Dispatchers == {"rest", "ws"}

NoEvent == [orderid |-> NoId, status |-> "None", by |-> "none"]

\* self.orders[order.orderid] = copy(order)
on_order_cache(d, orderid, status, by) ==
    /\ orders' = CachePut(orders, orderid, status)
    /\ publishing' = [publishing EXCEPT
                         ![d] = [orderid |-> orderid, status |-> status, by |-> by]]

\* super().on_order(order), and the handler returns
OnOrderPublishes(d) ==
    /\ publishing[d] # NoEvent
    /\ events' = Append(events, publishing[d])
    /\ publishing' = [publishing EXCEPT ![d] = NoEvent]
    /\ UNCHANGED <<now, connect_time, order_count, lifetime, pc, t_ct, t_life,
                   t_id, handle, allocs, orders, order_id, reqs, left, inbound,
                   trades>>

\* on_send_order_error, up to the write of the cache
OnSendOrderErrorCaches(i) ==
    /\ publishing["rest"] = NoEvent
    /\ Pending(i) /\ IsSendOrder(reqs[i])
    /\ reqs' = Rejected(i, "error")
    /\ on_order_cache("rest", reqs[i].extra.orderid, REJECTED, "on_send_order_error")
    /\ UNCHANGED <<now, connect_time, order_count, lifetime, pc, t_ct, t_life,
                   t_id, handle, allocs, order_id, events, left, inbound, trades>>

\* on_send_order_failed, up to the write of the cache
OnSendOrderFailedCaches(i) ==
    /\ publishing["rest"] = NoEvent
    /\ Pending(i) /\ IsSendOrder(reqs[i])
    /\ reqs' = Rejected(i, "failed")
    /\ on_order_cache("rest", reqs[i].extra.orderid, REJECTED, "on_send_order_failed")
    /\ UNCHANGED <<now, connect_time, order_count, lifetime, pc, t_ct, t_life,
                   t_id, handle, allocs, order_id, events, left, inbound, trades>>

\* on_cancel_failed, up to the write of the cache; without request.extra it
\* returns at once
OnCancelFailedCaches(i) ==
    /\ publishing["rest"] = NoEvent
    /\ Pending(i) /\ IsCancel(reqs[i])
    /\ IF reqs[i].extra # NoOrder
         THEN /\ reqs' = Rejected(i, "failed")
              /\ on_order_cache("rest", reqs[i].extra.orderid, REJECTED,
                                "on_cancel_failed")
         ELSE /\ reqs' = Answered(i, "failed")
              /\ UNCHANGED <<orders, publishing>>
    /\ UNCHANGED <<now, connect_time, order_count, lifetime, pc, t_ct, t_life,
                   t_id, handle, allocs, order_id, events, left, inbound, trades>>

\* on_query_order for a response of one record, up to the write of the cache
OnQueryOrderCaches(i, d) ==
    /\ publishing["rest"] = NoEvent
    /\ Pending(i) /\ IsQueryOrder(reqs[i])
    /\ reqs' = Answered(i, "success")
    /\ on_order_cache("rest", d.clientId,
                      QueryOrderStatus(d.raw[1], d.raw[2], d.raw[3], d.raw[4]),
                      "on_query_order")
    /\ UNCHANGED <<now, connect_time, order_count, lifetime, pc, t_ct, t_life,
                   t_id, handle, allocs, order_id, events, left, inbound, trades>>

\* on_packet for an orders frame, up to the write of the cache
OnPacketOrdersCaches(d) ==
    /\ publishing["ws"] = NoEvent
    /\ left.push > 0
    /\ left' = [left EXCEPT !.push = @ - 1]
    /\ order_id' = MapPut(order_id, d.id, d.clientId)
    /\ on_order_cache("ws", d.clientId,
                      PacketOrderStatus(d.raw[1], d.raw[2], d.raw[3], d.raw[4]),
                      "on_packet")
    /\ inbound' = Append(inbound,
                         Handled("orders", d.id, d.clientId, "returned", Len(reqs)))
    /\ UNCHANGED <<now, connect_time, order_count, lifetime, pc, t_ct, t_life,
                   t_id, handle, allocs, events, reqs, trades>>

(***************************************************************************)
(* FtxGateway.process_timer_event, lines 183-189, the handler init_ping    *)
(* registers for the timer event of the host.                              *)
(***************************************************************************)
\* if self.count < 15
PingTicks == 15

\* a heartbeat that waits for the count to pass the threshold
DueLate(number) == number > PingTicks

\* the early return is not taken
Due(number) == ~(number < PingTicks)

ProcessTimerEvent ==
    /\ registered
    /\ left.tick > 0
    /\ left' = [left EXCEPT !.tick = @ - 1]
    /\ ticks' = ticks + 1
    /\ IF Due(count + 1)
         THEN /\ count' = 0
              /\ sent' = ping(sent, conn)
              /\ beats' = Append(beats, ticks + 1)
         ELSE /\ count' = count + 1
              /\ UNCHANGED <<sent, beats>>
    /\ UNCHANGED <<registered, symbol_contract_map, subscribed, ws_state, conn, last>>

(***************************************************************************)
(* FtxRestApi.sign, lines 218-245.  A request is its method, its path, its *)
(* data without the entry "security" (a dict, here its items in order),    *)
(* and that entry; the gateway passes no headers.                          *)
(***************************************************************************)
SecurityNONE == "Security.NONE"
SecuritySIGNED == "Security.SIGNED"

\* request.headers and request.data when they are None
NoHeaders == [none |-> TRUE, fields |-> {}]
NoData == [kind |-> "None", text |-> ""]

RECURSIVE JsonItems(_)
JsonItems(items) ==
    IF items = <<>> THEN ""
    ELSE "\"" \o Head(items)[1] \o "\": \"" \o Head(items)[2] \o "\""
         \o (IF Len(items) > 1 THEN ", " ELSE "")
         \o JsonItems(Tail(items))

\* json.dumps of a dict of strings
json_dumps(items) == "{" \o JsonItems(items) \o "}"

\* a payload that leaves the body out
signature_payload_no_body(timestamp, request) ==
    ToString(timestamp) \o request.method \o request.path

\* f'{timestamp}{request.method}{request.path}', and the dumped data if any
signature_payload(timestamp, request) ==
    ToString(timestamp) \o request.method \o request.path
    \o (IF request.data # <<>> THEN json_dumps(request.data) ELSE "")

\* hmac.new(key, msg, 'sha256').hexdigest(): the digest stands for its key
\* and its message, two of which are taken never to share a digest
hmac_sha256_hexdigest(k, msg) == [digest |-> "sha256", key |-> k, msg |-> msg]

\* sign, on the request and the clock reading int(time.time() * 1000), with
\* self.key and self.secret: the data and the headers of the request returned.
\* Security has the two members NONE and SIGNED.
sign(request, timestamp, k, s) ==
    IF request.security = SecurityNONE
    THEN [data |-> NoData, headers |-> NoHeaders]
    ELSE [data |-> IF request.data # <<>>
                     THEN [kind |-> "str", text |-> json_dumps(request.data)]
                     ELSE [kind |-> "dict", text |-> ""],
          headers |->
              [none |-> FALSE,
               fields |-> { <<"Content-Type", "application/json">>,
                            <<"FTX-KEY", k>>,
                            <<"FTX-SIGN",
                              hmac_sha256_hexdigest(
                                  s, signature_payload(timestamp, request))>>,
                            <<"FTX-TS", ToString(timestamp)>> }]]

Methods == {"GET", "POST"}
Paths == {"/api/orders", "/api/markets"}
Bodies == { <<>>, << <<"market", "BTC-PERP">> >> }
Secrets == {encode(ApiSecret), encode("another secret")}

\* a call of sign: the request, the clock reading, and self.secret
SignCalls ==
    [request : [method : Methods, path : Paths, data : Bodies,
                security : {SecurityNONE, SecuritySIGNED}],
     timestamp : 1..MaxTimestamp,
     secret : Secrets]

NotSigned == [data |-> [kind |-> "not signed", text |-> ""], headers |-> NoHeaders]

SignFirst ==
    /\ signed.ra = NotSigned
    /\ signed' = [signed EXCEPT
                     !.ra = sign(signed.a.request, signed.a.timestamp,
                                 ApiKey, signed.a.secret)]

SignSecond ==
    /\ signed.rb = NotSigned
    /\ signed' = [signed EXCEPT
                     !.rb = sign(signed.b.request, signed.b.timestamp,
                                 ApiKey, signed.b.secret)]

(***************************************************************************)
(* FtxRestApi.query_history, lines 533-569, called through                 *)
(* FtxGateway.query_history, lines 174-176.  The response is resp.json():  *)
(* a value that is false (no JSON object, or an empty one), or an object   *)
(* whose "result" is the candles.  A candle is its time in milliseconds    *)
(* and its close; volume, open, high and low are copied as close is.       *)
(***************************************************************************)
CandleTimes == {500, 1500}
Prices == {1, 2}
Candles == [time : CandleTimes, close : Prices]

Responses ==
    {[falsy |-> TRUE, result |-> <<>>]}
    \cup {[falsy |-> FALSE, result |-> r] :
              r \in UNION {[1..n -> Candles] : n \in 0..MaxCandles}}

HistoryRequests == [symbol : Symbols, exchange : Exchanges, interval : {"1m"}]

\* datetime.utcfromtimestamp(time / 1000)
utcfromtimestamp_ms(time) == [second |-> time \div 1000, microsecond |-> (time % 1000) * 1000]

BarData(req, his_data) ==
    [symbol |-> req.symbol, exchange |-> req.exchange,
     datetime |-> utcfromtimestamp_ms(his_data.time),
     interval |-> req.interval, close_price |-> his_data.close,
     gateway_name |-> GatewayName]

\* what a call returns: an int, or a list of bars
ReturnedInt(number) == [type |-> "int", number |-> number, bars |-> <<>>]
ReturnedList(bars) == [type |-> "list", number |-> 0, bars |-> bars]

query_history(req, data) ==
    IF data.falsy THEN ReturnedInt(0)
    ELSE ReturnedList([k \in DOMAIN data.result |-> BarData(req, data.result[k])])

NoReturn == [type |-> "no return yet", number |-> 0, bars |-> <<>>]

QueryHistory ==
    /\ history.ret = NoReturn
    /\ history' = [history EXCEPT !.ret = query_history(history.req, history.resp)]

(***************************************************************************)
(* The two reconcilers, each applied to a raw record on its own.           *)
(***************************************************************************)
RawStatuses == {"new", "open", "closed", "gibberish"}

Sizes == 0..MaxSize

NotReconciled == "not reconciled"

ReconcileQuery ==
    /\ rec.rest = NotReconciled
    /\ rec' = [rec EXCEPT !.rest = QueryOrderStatus(rec.raw[1], rec.raw[2],
                                                    rec.raw[3], rec.raw[4])]

ReconcilePacket ==
    /\ rec.ws = NotReconciled
    /\ rec' = [rec EXCEPT !.ws = PacketOrderStatus(rec.raw[1], rec.raw[2],
                                                   rec.raw[3], rec.raw[4])]

(***************************************************************************)
(* The gateway after construction.                                         *)
(***************************************************************************)
OrderInit ==
    /\ now = 1
    /\ connect_time = 0
    /\ order_count = ORDER_COUNT_INIT
    /\ lifetime = 0
    /\ pc = [t \in Threads |-> "idle"]
    /\ t_ct = [t \in Threads |-> 0]
    /\ t_life = [t \in Threads |-> 0]
    /\ t_id = [t \in Threads |-> NoId]
    /\ handle = [t \in Threads |-> NotReturned]
    /\ allocs = <<>>
    /\ orders = <<>>
    /\ order_id = <<>>
    /\ events = <<>>
    /\ reqs = <<>>

StreamInit ==
    /\ symbol_contract_map = {}
    /\ subscribed = <<>>
    /\ ws_state = "stopped"
    /\ conn = 0
    /\ sent = <<>>
    /\ last = [op |-> "none", req |-> [symbol |-> "", exchange |-> ""],
               known |-> FALSE, had |-> FALSE, conn |-> 0]

\* before init_ping the gateway has no count, and no timer handler
TimerInit ==
    /\ count = 0
    /\ registered = FALSE
    /\ ticks = 0
    /\ beats = <<>>

\* FtxRestApi.__init__: self.key = "", self.secret = ""
CredInit ==
    /\ key = ""
    /\ secret = encode("")

InboundInit ==
    /\ trades = <<>>
    /\ inbound = <<>>

\* no dispatch thread is inside on_order
DispatchInit == publishing = [d \in Dispatchers |-> NoEvent]

GatewayInit ==
    OrderInit /\ CredInit /\ InboundInit /\ DispatchInit /\ StreamInit /\ TimerInit

RecInit == rec = [raw |-> <<"", 0, 0, 0>>, rest |-> NotReconciled, ws |-> NotReconciled]

SignInit ==
    signed = [a |-> [request |-> [method |-> "GET", path |-> "/api/orders",
                                  data |-> <<>>, security |-> SecurityNONE],
                     timestamp |-> 1, secret |-> encode(ApiSecret)],
              b |-> [request |-> [method |-> "GET", path |-> "/api/orders",
                                  data |-> <<>>, security |-> SecurityNONE],
                     timestamp |-> 1, secret |-> encode(ApiSecret)],
              ra |-> NotSigned, rb |-> NotSigned]

HistoryInit ==
    history = [req |-> [symbol |-> "BTC-PERP", exchange |-> "FTX", interval |-> "1m"],
               resp |-> [falsy |-> TRUE, result |-> <<>>],
               ret |-> NoReturn]

NoCalls ==
    [connect |-> 0, send |-> 0, cancel |-> 0, push |-> 0, fill |-> 0,
     subscribe |-> 0, unsubscribe |-> 0, wsconn |-> 0, tick |-> 0]

\* a step of one side of the gateway leaves the other sides alone
OrderStep(A) == A /\ UNCHANGED <<credVars, inboundVars, publishing, streamVars, timerVars, callVars>>
RestStep(A) == A /\ UNCHANGED <<inboundVars, publishing, streamVars, timerVars, callVars>>
PacketStep(A) == A /\ UNCHANGED <<credVars, publishing, streamVars, timerVars, callVars>>
StreamStep(A) == A /\ UNCHANGED <<orderVars, credVars, inboundVars, publishing, timerVars, callVars>>
ContractStep(A) == A /\ UNCHANGED <<credVars, inboundVars, publishing, timerVars, callVars>>
ConnectStep(A) == A /\ UNCHANGED <<inboundVars, publishing, callVars>>
TimerStep(A) == A /\ UNCHANGED <<orderVars, credVars, inboundVars, publishing, callVars>>
DispatchStep(A) == A /\ UNCHANGED <<credVars, streamVars, timerVars, callVars>>
RecStep(A) ==
    A /\ UNCHANGED <<orderVars, credVars, inboundVars, publishing, left, streamVars,
                     timerVars,
                     signed, history>>
SignStep(A) ==
    A /\ UNCHANGED <<orderVars, credVars, inboundVars, publishing, left, streamVars,
                     timerVars,
                     rec, history>>
HistoryStep(A) ==
    A /\ UNCHANGED <<orderVars, credVars, inboundVars, publishing, left, streamVars,
                     timerVars,
                     rec, signed>>

(***************************************************************************)
(* Spec: the life of an order.  One connection, the orders sent in it,     *)
(* their cancels, the answers of the exchange and its pushes.              *)
(***************************************************************************)
Init ==
    /\ GatewayInit /\ RecInit /\ SignInit /\ HistoryInit
    /\ left = [NoCalls EXCEPT !.connect = MaxSessions, !.send = MaxTracked,
                              !.cancel = MaxCancels, !.push = MaxPushes]

Next ==
    \/ RestStep(RestConnect)
    \/ \E t \in Threads : OrderStep(SendOrderRead(t))
    \/ \E t \in Threads : OrderStep(SendOrderNewId(t))
    \/ \E t \in Threads : OrderStep(SendOrderOnOrder(t))
    \/ \E t \in Threads : OrderStep(SendOrderAddRequest(t))
    \/ OrderStep(CancelOrder)
    \/ \E i \in DOMAIN reqs : OrderStep(OnSendOrder(i))
    \/ \E i \in DOMAIN reqs : OrderStep(OnSendOrderError(i))
    \/ \E i \in DOMAIN reqs : OrderStep(OnSendOrderFailed(i))
    \/ \E i \in DOMAIN reqs : OrderStep(OnCancelOrder(i))
    \/ \E i \in DOMAIN reqs : OrderStep(OnCancelFailed(i))
    \/ \E i \in DOMAIN reqs : OrderStep(OnCancelError(i))
    \/ OrderStep(OnQueryOrder)
    \/ PacketStep(OnPacketOrders)

Spec == Init /\ [][Next]_vars

(***************************************************************************)
(* SpecIds: the client order ids.  Concurrent callers of send_order, and   *)
(* one connect after another.                                              *)
(***************************************************************************)
InitIds ==
    /\ GatewayInit /\ RecInit /\ SignInit /\ HistoryInit
    /\ left = [NoCalls EXCEPT !.connect = MaxConnects, !.send = MaxOrders]

NextIds ==
    \/ RestStep(RestConnect)
    \/ \E t \in Threads : OrderStep(SendOrderRead(t))
    \/ \E t \in Threads : OrderStep(SendOrderNewId(t))
    \/ \E t \in Threads : OrderStep(SendOrderOnOrder(t))
    \/ \E t \in Threads : OrderStep(SendOrderAddRequest(t))

SpecIds == InitIds /\ [][NextIds]_vars

(***************************************************************************)
(* SpecWs: the WebSocket session.  The gateway connects, the contract      *)
(* query is answered, the host subscribes and unsubscribes, the transport  *)
(* connects, drops and connects again.                                     *)
(***************************************************************************)
InitWs ==
    /\ GatewayInit /\ RecInit /\ SignInit /\ HistoryInit
    /\ left = [NoCalls EXCEPT !.connect = MaxStarts, !.wsconn = MaxWsConnects,
                              !.subscribe = MaxSubscribes,
                              !.unsubscribe = MaxUnsubscribes]

NextWs ==
    \/ ConnectStep(GatewayConnect)
    \/ ContractStep(OnQueryContract)
    \/ StreamStep(OnConnected)
    \/ StreamStep(OnDisconnected)
    \/ \E req \in SubscribeRequests : StreamStep(Subscribe(req))
    \/ \E req \in SubscribeRequests : StreamStep(Unsubscribe(req))

SpecWs == InitWs /\ [][NextWs]_vars

(***************************************************************************)
(* SpecRec: the reconcilers on every raw record of the bounded sets.       *)
(***************************************************************************)
InitRec ==
    /\ GatewayInit /\ SignInit /\ HistoryInit
    /\ left = NoCalls
    /\ rec \in [raw : RawStatuses \X Sizes \X Sizes \X Sizes,
                rest : {NotReconciled}, ws : {NotReconciled}]

NextRec ==
    \/ RecStep(ReconcileQuery)
    \/ RecStep(ReconcilePacket)

SpecRec == InitRec /\ [][NextRec]_vars

(***************************************************************************)
(* SpecRace: the life of an order with the two dispatch threads running    *)
(* side by side, each inside on_order or out of it.                        *)
(***************************************************************************)
InitRace ==
    /\ GatewayInit /\ RecInit /\ SignInit /\ HistoryInit
    /\ left = [NoCalls EXCEPT !.connect = MaxSessions, !.send = MaxTracked,
                              !.cancel = MaxCancels, !.push = MaxPushes]

NextRace ==
    \/ RestStep(RestConnect)
    \/ \E t \in Threads : OrderStep(SendOrderRead(t))
    \/ \E t \in Threads : OrderStep(SendOrderNewId(t))
    \/ \E t \in Threads : OrderStep(SendOrderOnOrder(t))
    \/ \E t \in Threads : OrderStep(SendOrderAddRequest(t))
    \/ OrderStep(CancelOrder)
    \/ \E i \in DOMAIN reqs : DispatchStep(OnSendOrderErrorCaches(i))
    \/ \E i \in DOMAIN reqs : DispatchStep(OnSendOrderFailedCaches(i))
    \/ \E i \in DOMAIN reqs : DispatchStep(OnCancelFailedCaches(i))
    \/ \E i \in DOMAIN reqs : \E d \in OrderRecords : DispatchStep(OnQueryOrderCaches(i, d))
    \/ \E d \in OrderRecords : DispatchStep(OnPacketOrdersCaches(d))
    \/ \E d \in Dispatchers : DispatchStep(OnOrderPublishes(d))

SpecRace == InitRace /\ [][NextRace]_vars

(***************************************************************************)
(* SpecFills: the frames of the channels orders and fills, in any order.   *)
(***************************************************************************)
InitFills ==
    /\ GatewayInit /\ RecInit /\ SignInit /\ HistoryInit
    /\ left = [NoCalls EXCEPT !.connect = MaxSessions, !.push = MaxFillPushes,
                              !.fill = MaxFills]

NextFills ==
    \/ RestStep(RestConnect)
    \/ PacketStep(OnPacketOrdersPushed)
    \/ PacketStep(OnPacketFills)

SpecFills == InitFills /\ [][NextFills]_vars

(***************************************************************************)
(* SpecTimer: the heartbeat.  The gateway connects, once or again, and the *)
(* timer of the host ticks.                                                *)
(***************************************************************************)
InitTimer ==
    /\ GatewayInit /\ RecInit /\ SignInit /\ HistoryInit
    /\ left = [NoCalls EXCEPT !.connect = MaxInits, !.tick = MaxTicks]

NextTimer ==
    \/ ConnectStep(GatewayConnect)
    \/ TimerStep(ProcessTimerEvent)

SpecTimer == InitTimer /\ [][NextTimer]_vars

(***************************************************************************)
(* SpecSign: sign on every two requests of the bounded sets.               *)
(***************************************************************************)
InitSign ==
    /\ GatewayInit /\ RecInit /\ HistoryInit
    /\ left = NoCalls
    /\ signed \in [a : SignCalls, b : SignCalls, ra : {NotSigned}, rb : {NotSigned}]

NextSign ==
    \/ SignStep(SignFirst)
    \/ SignStep(SignSecond)

SpecSign == InitSign /\ [][NextSign]_vars

(***************************************************************************)
(* SpecHistory: query_history on every response of the bounded sets.       *)
(***************************************************************************)
InitHistory ==
    /\ GatewayInit /\ RecInit /\ SignInit
    /\ left = NoCalls
    /\ history \in [req : HistoryRequests, resp : Responses, ret : {NoReturn}]

NextHistory == HistoryStep(QueryHistory)

SpecHistory == InitHistory /\ [][NextHistory]_vars

(***************************************************************************)
(* Client order ids (SpecIds).                                             *)
(***************************************************************************)
\* a send_order call made within one connection lifetime: it read
\* connect_time and took its number between the same two connects
WithinLifetime(a) == a.began = a.life

\* C1: of two send_order calls made within the same connection lifetime, under
\* any interleaving of the callers, the one whose locked increment came later
\* got the strictly greater id; so the ids of a lifetime are pairwise distinct.
C1_IdsStrictlyIncreasing ==
    \A i, j \in DOMAIN allocs :
        ( /\ i < j
          /\ WithinLifetime(allocs[i]) /\ WithinLifetime(allocs[j])
          /\ allocs[i].life = allocs[j].life )
        => allocs[i].id < allocs[j].id

\* both callers are inside send_order at once, each with its id, in the first
\* connection lifetime
C1_Witness ==
    /\ \A t \in Threads : pc[t] = "alloc" /\ t_life[t] = 1
    /\ lifetime = 1
    /\ Len(allocs) >= 2

\* C2: an id generated in a later connection lifetime is greater than every id
\* generated in an earlier one, so the ids of two lifetimes never coincide and
\* their ranges do not overlap.
C2_LifetimesDoNotOverlap ==
    \A i, j \in DOMAIN allocs :
        ( /\ WithinLifetime(allocs[i]) /\ WithinLifetime(allocs[j])
          /\ allocs[i].life < allocs[j].life )
        => allocs[i].id < allocs[j].id

\* ids were generated after the first connect and after the second
C2_Witness ==
    \E i, j \in DOMAIN allocs :
        /\ WithinLifetime(allocs[i]) /\ allocs[i].life = 1
        /\ WithinLifetime(allocs[j]) /\ allocs[j].life = 2

\* C9: when FtxGateway.send_order has returned, what the caller holds is the
\* handle of the order just created: the vt_orderid of the id just generated.
C9_HandleIdentifiesOrder ==
    \A t \in Threads :
        handle[t] # NotReturned => handle[t] = vt_orderid(t_id[t])

(***************************************************************************)
(* The reconciliation table (SpecRec).                                     *)
(***************************************************************************)
UNRECOGNIZED == "UNRECOGNIZED"

\* the ordered table of the reconciler: the first row that matches
TableStatus(raw) ==
    LET status == raw[1]
        size == raw[2]
        filled == raw[3]
        remaining == raw[4]
    IN  IF status = "new" THEN NOTTRADED
        ELSE IF status = "open" /\ filled = 0 THEN NOTTRADED
        ELSE IF status = "open" /\ filled # size THEN PARTTRADED
        ELSE IF status = "closed" /\ filled # size THEN CANCELLED
        ELSE IF filled = size /\ remaining = 0 THEN ALLTRADED
        ELSE UNRECOGNIZED

\* C3: for every raw status, size, filledSize and remainingSize, each
\* reconciler gives the canonical status of the first matching row of the
\* table, and UNRECOGNIZED when no row matches.
C3_FirstMatchingRow ==
    /\ rec.rest # NotReconciled => rec.rest = TableStatus(rec.raw)
    /\ rec.ws # NotReconciled => rec.ws = TableStatus(rec.raw)

(***************************************************************************)
(* The subscription registry and the frames (SpecWs).                      *)
(***************************************************************************)
TickerFrames(op, symbol) ==
    {k \in DOMAIN sent : /\ sent[k].op = op
                         /\ sent[k].channel = "ticker"
                         /\ sent[k].market = symbol}

SentOn(c, op, channel, market) ==
    \E k \in DOMAIN sent : sent[k] = Frame(op, channel, market, c)

\* C4: once the transport has connected again, a ticker-subscribe frame has
\* gone out on the new connection for every entry of the registry.
C4_ReplayOnReconnect ==
    (ws_state = "connected" /\ conn >= 2)
    => \A k \in DOMAIN subscribed :
           SentOn(conn, "subscribe", "ticker", subscribed[k].symbol)

\* C5: once the transport has connected, for the first time or again, the
\* subscribe frames of the channels fills and orders have gone out on that
\* connection.
C5_PrivateChannelsOnConnect ==
    ws_state = "connected"
    => /\ SentOn(conn, "subscribe", "fills", "")
       /\ SentOn(conn, "subscribe", "orders", "")

\* a step that is a call of subscribe: the calls still to come are one fewer
IsSubscribeCall == left'.subscribe < left.subscribe

\* C6: for a known symbol, the ticker-subscribe frames sent for it are one
\* more than the ticker-unsubscribe frames while its key is in the registry
\* and as many otherwise, the registry holds the key at most once, and a call
\* of subscribe that finds the key in the registry sends no frame and leaves
\* the registry as it is.
C6_SubscribeIdempotent ==
    /\ [](\A req \in SubscribeRequests :
            LET held == {k \in DOMAIN subscribed :
                            vt_symbol(subscribed[k]) = vt_symbol(req)}
            IN  /\ Cardinality(held) <= 1
                /\ Cardinality(TickerFrames("subscribe", req.symbol))
                     = Cardinality(TickerFrames("unsubscribe", req.symbol))
                       + Cardinality(held))
    /\ [][(IsSubscribeCall /\ last'.had) => (sent' = sent /\ subscribed' = subscribed)]_vars

\* subscribe was called for a known symbol whose key the registry held, and one
\* ticker-subscribe frame is all that was ever sent for it
C6_Witness ==
    /\ last.op = "subscribe" /\ last.known /\ last.had
    /\ Cardinality(TickerFrames("subscribe", last.req.symbol)) = 1
    /\ Cardinality(TickerFrames("unsubscribe", last.req.symbol)) = 0
    /\ vt_symbol(last.req) \in Keys(subscribed)

(***************************************************************************)
(* The life of an order (Spec).                                            *)
(***************************************************************************)
EventsOf(orderid) == {k \in DOMAIN events : events[k].orderid = orderid}

FirstOf(S) == CHOOSE k \in S : \A j \in S : k <= j

SendOrders == {i \in DOMAIN reqs : IsSendOrder(reqs[i])}

\* the order was cached and published as SUBMITTING before its POST was
\* queued, and no Order event for its id came earlier
SubmittingFirst(i) ==
    LET ids == EventsOf(reqs[i].orderid)
    IN  /\ ids # {}
        /\ events[FirstOf(ids)].status = SUBMITTING
        /\ events[FirstOf(ids)].by = "send_order"
        /\ reqs[i].orderid \in DOMAIN orders

\* C7 as stated: SUBMITTING is cached and published before the POST is queued
\* and is the first Order event of the id, and while the POST has no answer
\* the cache holds SUBMITTING for the id.
C7_SubmittingWhileUnanswered ==
    \A i \in SendOrders :
        /\ SubmittingFirst(i)
        /\ reqs[i].st = "pending"
             => get_order(reqs[i].orderid).status = SUBMITTING

\* C7 as amended: SUBMITTING is cached and published before the POST is queued
\* and is the first Order event of the id, and while the POST has no answer
\* and no further Order event was published for the id, the cache holds
\* SUBMITTING for it.
C7_SubmittingUntilNextEvent ==
    \A i \in SendOrders :
        /\ SubmittingFirst(i)
        /\ (reqs[i].st = "pending" /\ Cardinality(EventsOf(reqs[i].orderid)) = 1)
             => get_order(reqs[i].orderid).status = SUBMITTING

\* the POST has no answer, a cancel for the order was answered, and the cache
\* still holds SUBMITTING
C7_Witness ==
    \E i \in SendOrders : \E j \in DOMAIN reqs :
        /\ reqs[i].st = "pending"
        /\ IsCancel(reqs[j]) /\ reqs[j].orderid = reqs[i].orderid
        /\ reqs[j].st # "pending"
        /\ get_order(reqs[i].orderid).status = SUBMITTING

FailedSends == {i \in SendOrders : reqs[i].st \in {"failed", "error"}}

RejectedEvents(orderid) ==
    {k \in EventsOf(orderid) : events[k].status = REJECTED}

SendFailureCallbacks == {"on_send_order_error", "on_send_order_failed"}

\* C8 as stated: for a send-order request that failed, exactly one REJECTED
\* Order event was published for its client order id.
C8_RejectedExactlyOnce ==
    \A i \in FailedSends : Cardinality(RejectedEvents(reqs[i].orderid)) = 1

\* C8 as amended: for a send-order request that failed, its order is REJECTED
\* and its failure callback published exactly one REJECTED Order event; a
\* request that has not failed published none; any other REJECTED event of
\* the id was published by on_cancel_failed.
C8_RejectedOncePerFailedRequest ==
    \A i \in SendOrders :
        LET rejected == RejectedEvents(reqs[i].orderid)
            bySend == {k \in rejected : events[k].by \in SendFailureCallbacks}
        IN  /\ i \in FailedSends
                => Cardinality(bySend) = 1 /\ reqs[i].extra.status = REJECTED
            /\ i \notin FailedSends => bySend = {}
            /\ \A k \in rejected \ bySend : events[k].by = "on_cancel_failed"

\* a send-order request failed and a cancel of the same order failed too
C8_Witness ==
    \E i \in FailedSends :
        \E k \in RejectedEvents(reqs[i].orderid) : events[k].by = "on_cancel_failed"

\* C10: a DELETE request is queued only for an order that the cache held when
\* cancel_order was called.
C10_NoRequestForUnknownOrder ==
    \A i \in DOMAIN reqs : IsCancel(reqs[i]) => reqs[i].extra # NoOrder

(***************************************************************************)
(* The frames of the channel fills (SpecFills).                            *)
(***************************************************************************)
FillsFrames == {k \in DOMAIN inbound : inbound[k].channel = "fills"}

TradesOf(k) == {j \in DOMAIN trades : trades[j].frame = k}

\* C11: a fills frame whose exchange order id the map order_id does not hold
\* publishes no Trade and queues no position query, and its handler returns:
\* no error escapes from it.
C11_UnknownFillDropped ==
    \A k \in FillsFrames :
        ~inbound[k].known
        => /\ TradesOf(k) = {}
           /\ inbound[k].after = inbound[k].before
           /\ inbound[k].outcome = "returned"

\* the orders frames handled before frame k that carried the exchange id
PushesBefore(k, id) ==
    {j \in 1..(k - 1) : inbound[j].channel = "orders" /\ inbound[j].id = id}

LastOf(S) == CHOOSE k \in S : \A j \in S : j <= k

\* C20: a fills frame whose exchange order id the map order_id holds publishes
\* exactly one Trade, whose orderid is the client id of the latest orders frame
\* with that exchange id, and queues exactly one request, a position query;
\* the Trade was published when the query was not yet queued.
C20_FillPublishesTradeThenQuery ==
    \A k \in FillsFrames :
        inbound[k].known
        => /\ PushesBefore(k, inbound[k].id) # {}
           /\ \E j \in DOMAIN trades :
                 /\ TradesOf(k) = {j}
                 /\ trades[j].orderid
                      = inbound[LastOf(PushesBefore(k, inbound[k].id))].clientId
                 /\ trades[j].queued = inbound[k].before
           /\ inbound[k].after = inbound[k].before + 1
           /\ reqs[inbound[k].after].method = QueryPositionRequest.method
           /\ reqs[inbound[k].after].path = QueryPositionRequest.path
           /\ inbound[k].outcome = "returned"

\* a fill came for an exchange id that two orders frames had given two client
\* ids, one after the other
C20_Witness ==
    \E k \in FillsFrames :
        /\ inbound[k].known
        /\ TradesOf(k) # {}
        /\ \E i, j \in PushesBefore(k, inbound[k].id) :
              inbound[i].clientId # inbound[j].clientId

(***************************************************************************)
(* The signature (SpecSign).                                               *)
(***************************************************************************)
\* the value of a header of a signed request
Header(result, name) ==
    (CHOOSE field \in result.headers.fields : field[1] = name)[2]

\* the five inputs of the signature: method, path, body, timestamp, secret
SignatureInputs(call) ==
    <<call.request.method, call.request.path, call.request.data,
      call.timestamp, call.secret>>

IsSigned(call) == call.request.security = SecuritySIGNED

\* C12: two SIGNED requests carry the same FTX-SIGN if their method, path,
\* body, timestamp and secret are the same and different ones if any of the
\* five differs, and a request of security NONE gets no header at all.
C12_SignatureDeterminism ==
    /\ ( /\ signed.ra # NotSigned /\ signed.rb # NotSigned
         /\ IsSigned(signed.a) /\ IsSigned(signed.b) )
       => ( SignatureInputs(signed.a) = SignatureInputs(signed.b)
            <=> Header(signed.ra, "FTX-SIGN") = Header(signed.rb, "FTX-SIGN") )
    /\ (signed.ra # NotSigned /\ ~IsSigned(signed.a)) => signed.ra.headers = NoHeaders
    /\ (signed.rb # NotSigned /\ ~IsSigned(signed.b)) => signed.rb.headers = NoHeaders

\* two requests were signed that differ in their body alone, one without a
\* body, and their signatures differ
C12_Witness ==
    /\ signed.ra # NotSigned /\ signed.rb # NotSigned
    /\ IsSigned(signed.a) /\ IsSigned(signed.b)
    /\ signed.a.request.data = <<>> /\ signed.b.request.data # <<>>
    /\ [signed.a EXCEPT !.request.data = signed.b.request.data] = signed.b
    /\ Header(signed.ra, "FTX-SIGN") # Header(signed.rb, "FTX-SIGN")
    /\ Header(signed.ra, "FTX-TS") = Header(signed.rb, "FTX-TS")

(***************************************************************************)
(* Credentials at connect (SpecWs).                                        *)
(***************************************************************************)
\* C13: after a connect whose key or secret is empty, no REST request is
\* queued and the WebSocket session is not started.
C13_MissingCredentialsFail ==
    (lifetime >= 1 /\ (key = "" \/ secret = encode("")))
    => (reqs = <<>> /\ ws_state = "stopped")

(***************************************************************************)
(* The history query (SpecHistory).                                        *)
(***************************************************************************)
\* C14: what query_history returns is a list of bars, one for every candle of
\* the response and in their order, so an empty list when the response has no
\* data.
C14_EmptyHistoryIsEmptySequence ==
    history.ret # NoReturn
    => /\ history.ret.type = "list"
       /\ Len(history.ret.bars) = Len(history.resp.result)
       /\ \A k \in DOMAIN history.ret.bars :
             /\ history.ret.bars[k].close_price = history.resp.result[k].close
             /\ history.ret.bars[k].datetime
                  = utcfromtimestamp_ms(history.resp.result[k].time)
             /\ history.ret.bars[k].symbol = history.req.symbol

(***************************************************************************)
(* The two reconcilers against each other (SpecRec).                       *)
(***************************************************************************)
\* C15: for every raw status, size, filledSize and remainingSize, the status
\* on_query_order gives an open-order record and the status on_packet gives
\* an orders frame are the same.
C15_SameReconciliation ==
    (rec.rest # NotReconciled /\ rec.ws # NotReconciled) => rec.rest = rec.ws

\* both reconcilers were applied to a record whose raw status is neither
\* "open" nor "closed", and each of the two gave NOTTRADED
C15_Witness ==
    /\ rec.raw[1] \notin {"open", "closed"}
    /\ rec.rest = NOTTRADED /\ rec.ws = NOTTRADED

(***************************************************************************)
(* The heartbeat (SpecTimer).  Ticks are counted from init_ping, which     *)
(* every FtxGateway.connect calls.                                         *)
(***************************************************************************)
\* C16: once the heartbeat is initialised, the ticks that sent a ping are the
\* 15th, the 30th, the 45th and so on and no others, the counter is the
\* number of ticks since the last of them and stays within 0..14, and a tick
\* sends one ping frame and resets the counter if it is such a tick and
\* sends nothing otherwise.
C16_PingEveryFifteenthTick ==
    /\ [](registered
            => /\ count \in 0..(PingTicks - 1)
               /\ count = ticks % PingTicks
               /\ Len(beats) = ticks \div PingTicks
               /\ \A k \in DOMAIN beats : beats[k] = PingTicks * k)
    /\ [][ticks' = ticks + 1
            => IF ticks' % PingTicks = 0
               THEN sent' = Append(sent, Frame("ping", "", "", conn)) /\ count' = 0
               ELSE sent' = sent /\ count' = count + 1]_vars

\* thirty ticks came since init_ping, and the 15th and the 30th sent a ping
C16_Witness ==
    /\ registered
    /\ ticks = 2 * PingTicks
    /\ beats = <<PingTicks, 2 * PingTicks>>
    /\ count = 0
    /\ Cardinality({k \in DOMAIN sent : sent[k].op = "ping"}) >= 2

(***************************************************************************)
(* Unsubscribe, unknown symbols, and the frames of a connect (SpecWs).     *)
(***************************************************************************)
\* a step that is a call of unsubscribe
IsUnsubscribeCall == left'.unsubscribe < left.unsubscribe

NewFrames == {k \in DOMAIN sent' : k > Len(sent)}

\* C18: a call of subscribe for a symbol that symbol_contract_map does not
\* hold sends no frame and leaves the registry as it is; the registry holds
\* known symbols only and changes in calls of subscribe and unsubscribe only;
\* and a ticker-subscribe frame sent by anything but a call of subscribe, a
\* contract answer or a connect for one, is for an entry of the registry.
C18_UnknownSymbolIgnored ==
    /\ [](\A k \in DOMAIN subscribed : subscribed[k].symbol \in symbol_contract_map)
    /\ [][ /\ (IsSubscribeCall /\ ~last'.known)
              => (sent' = sent /\ subscribed' = subscribed)
           /\ (~IsSubscribeCall /\ ~IsUnsubscribeCall) => subscribed' = subscribed
           /\ ~IsSubscribeCall
              => \A k \in NewFrames :
                     \/ ~(sent'[k].op = "subscribe" /\ sent'[k].channel = "ticker")
                     \/ \E j \in DOMAIN subscribed :
                            subscribed[j].symbol = sent'[k].market
         ]_vars

\* subscribe was called for a symbol not yet known; the symbol became known
\* and the transport connected after that; nothing was sent for the symbol
C18_Witness ==
    /\ last.op = "subscribe" /\ ~last.known
    /\ last.req.symbol \in symbol_contract_map
    /\ ws_state = "connected" /\ conn > last.conn
    /\ TickerFrames("subscribe", last.req.symbol) = {}
    /\ vt_symbol(last.req) \notin Keys(subscribed)

\* C19: what on_connected sends on a transport connect is one ping frame,
\* then the login frame, then subscribe frames only: no subscribe frame of
\* the connect handler comes before the login frame of its connection.
C19_PingLoginThenSubscribes ==
    [][conn' = conn + 1
        => /\ Len(sent') >= Len(sent) + 2
           /\ sent'[Len(sent) + 1] = Frame("ping", "", "", conn')
           /\ sent'[Len(sent) + 2] = Frame("login", "", "", conn')
           /\ \A k \in NewFrames : (k > Len(sent) + 2) => (sent'[k].op = "subscribe")
           /\ \A k \in DOMAIN sent : sent'[k] = sent[k]
      ]_vars

\* the transport connected a second time with an entry in the registry, and
\* the last frames sent are the ping and the login of that connection
C19_Witness ==
    /\ ws_state = "connected" /\ conn >= 2
    /\ subscribed # <<>>
    /\ Len(sent) >= 2
    /\ sent[Len(sent) - 1] = Frame("ping", "", "", conn)
    /\ sent[Len(sent)] = Frame("login", "", "", conn)

(***************************************************************************)
(* The statuses of published and cached orders (Spec).                     *)
(***************************************************************************)
CanonicalStatuses ==
    {SUBMITTING, NOTTRADED, PARTTRADED, ALLTRADED, CANCELLED, REJECTED, UNRECOGNIZED}

\* C21: every Order published to the host and every Order in the cache has
\* one of the canonical statuses, a record that matches no row of the
\* reconciliation table being published as UNRECOGNIZED.
C21_StatusesCanonical ==
    /\ \A k \in DOMAIN events : events[k].status \in CanonicalStatuses
    /\ \A id \in DOMAIN orders : orders[id].status \in CanonicalStatuses

(***************************************************************************)
(* The cache under the two dispatch threads (SpecRace).                    *)
(***************************************************************************)
HandlersReturned == \A d \in Dispatchers : publishing[d] = NoEvent

\* C22: when every handler has returned, the status the cache holds for a
\* client order id is the status of the latest Order event published for
\* that id.
C22_CacheIsLatestEvent ==
    HandlersReturned
    => \A id \in DOMAIN orders :
           /\ EventsOf(id) # {}
           /\ orders[id].status = events[LastOf(EventsOf(id))].status

(***************************************************************************)
(* Final statuses in the cache (Spec).                                     *)
(***************************************************************************)
FinalStatuses == {ALLTRADED, CANCELLED}

\* C23: once the cache holds ALLTRADED or CANCELLED for a client order id, no
\* step changes the cached status of that id to REJECTED or publishes a
\* REJECTED Order event for it.
C23_FinalStatusKept ==
    [][\A id \in DOMAIN orders :
          orders[id].status \in FinalStatuses
          => /\ orders'[id].status # REJECTED
             /\ \A k \in DOMAIN events' :
                   (k > Len(events) /\ events'[k].orderid = id)
                   => (events'[k].status # REJECTED)
      ]_vars

====
